---- MODULE Spec2Model ----
(***************************************************************************)
(* Model of the GS-232B <-> Pelco-D bridge (core/protocols.py,             *)
(* core/controller.py).                                                    *)
(*                                                                         *)
(* Text is a sequence of one-character strings, a Pelco-D frame a sequence *)
(* of bytes 0..255.  Angles are Python floats in the source; a float is    *)
(* modelled as a record [c, r]: c is the decimal value in centidegrees and *)
(* r in {-1,0,1} is the sign of the difference between the stored double   *)
(* and c/100.  A value whose c is a multiple of 25 and whose operands are  *)
(* exact is a multiple of 1/4 and is stored exactly (r = 0); every other   *)
(* result is rounded, and the direction of the rounding is an input (rnd)  *)
(* of the step that computes it.                                           *)
(*                                                                         *)
(* Specifications: Spec follows the worker of a started ControlSystem      *)
(* (FairSpec adds that it keeps running); CodecSpec applies the codec's    *)
(* angle transforms to chosen inputs; SetSpec makes one set_angle call;    *)
(* LifeSpec interleaves start() and stop() with the worker (TimelySpec     *)
(* does so with every transport call returning within its timeout, under   *)
(* fair scheduling); InitSpec follows __init__.                            *)
(***************************************************************************)
EXTENDS Integers, Sequences, FiniteSets, TLC

\* ------------------------------------------------------------------------
\* Bounds of the model
\* ------------------------------------------------------------------------
\* drain reads of one query_angle call that are counted (the count saturates)
MaxDrain == 2

\* threads start() creates before the model stops following new ones
MaxThreads == 2

\* ------------------------------------------------------------------------
\* Program constants
\* ------------------------------------------------------------------------
START_BYTE == 255
DEFAULT_ADDRESS == 1
max_retries == 3
QUERY_AZ == 81
QUERY_EL == 83
SET_AZ == 75
SET_EL == 77

\* ------------------------------------------------------------------------
\* Text helpers (Python str methods used by the controller)
\* ------------------------------------------------------------------------
Whitespace == {" ", "\t", "\n", "\r"}

Undecodable == {"0xFF"}

StartsWith(s, p) == Len(s) >= Len(p) /\ SubSeq(s, 1, Len(p)) = p

EndsWith(s, p) == Len(s) >= Len(p) /\ SubSeq(s, Len(s) - Len(p) + 1, Len(s)) = p

RECURSIVE LStrip(_)
LStrip(s) == IF s # <<>> /\ Head(s) \in Whitespace THEN LStrip(Tail(s)) ELSE s

RECURSIVE RStrip(_)
RStrip(s) ==
    IF s # <<>> /\ s[Len(s)] \in Whitespace THEN RStrip(SubSeq(s, 1, Len(s) - 1)) ELSE s

Strip(s) == RStrip(LStrip(s))

\* str.split(): the maximal runs of non-whitespace characters, in order
RECURSIVE SplitAcc(_, _, _)
SplitAcc(s, cur, acc) ==
    IF s = <<>>
    THEN IF cur = <<>> THEN acc ELSE Append(acc, cur)
    ELSE IF Head(s) \in Whitespace
         THEN SplitAcc(Tail(s), <<>>, IF cur = <<>> THEN acc ELSE Append(acc, cur))
         ELSE SplitAcc(Tail(s), Append(cur, Head(s)), acc)

Split(s) == SplitAcc(s, <<>>, <<>>)

\* bytes.decode(errors='ignore'): undecodable bytes are dropped
Decode(data) == SelectSeq(data, LAMBDA b : b \notin Undecodable)

\* GS232BProtocol.parse_command
parse_command(data) == Strip(Decode(data))

\* ------------------------------------------------------------------------
\* Numbers: float(), round(), str(int), format ':03d'
\* ------------------------------------------------------------------------
DigitChars == <<"0", "1", "2", "3", "4", "5", "6", "7", "8", "9">>

IsDigit(ch) == \E i \in 1..10 : DigitChars[i] = ch

DigitVal(ch) == (CHOOSE i \in 1..10 : DigitChars[i] = ch) - 1

AllDigits(s) == \A i \in 1..Len(s) : IsDigit(s[i])

RECURSIVE DigitsToNat(_)
DigitsToNat(s) ==
    IF s = <<>> THEN 0 ELSE DigitsToNat(SubSeq(s, 1, Len(s) - 1)) * 10 + DigitVal(s[Len(s)])

\* Rounding residue of a float result whose decimal value is c centidegrees.
\* A multiple of 0.25 computed from exact operands is exact.  Any other
\* result is a rounded double: it lies below (-1) or above (1) its decimal
\* value, and a multiple of 0.25 computed from rounded operands may also be
\* hit exactly (0).  Which of these happens is fixed by IEEE-754 for each
\* operand pair; the model leaves it to rnd.
Residue(c, exactOperands, rnd) ==
    IF c % 25 = 0
    THEN IF exactOperands THEN 0 ELSE rnd
    ELSE IF rnd = 0 THEN 1 ELSE rnd

Fl(c, rnd) == [c |-> c, r |-> Residue(c, TRUE, rnd)]

FAdd(x, y, rnd) ==
    [c |-> x.c + y.c, r |-> Residue(x.c + y.c, x.r = 0 /\ y.r = 0, rnd)]

FNeg(x) == [c |-> -(x.c), r |-> -(x.r)]

FLess(x, y) == x.c < y.c \/ (x.c = y.c /\ x.r < y.r)

\* float % 360: the result takes the sign of the divisor; a negative value
\* of negligible magnitude gives 360.0 (the sum fmod + 360 rounds up to 360),
\* a value just below a multiple of 360 stays just below 360
FMod360(x) ==
    IF x.r < 0 /\ x.c % 36000 = 0
    THEN [c |-> 36000, r |-> IF x.c = 0 THEN 0 ELSE -1]
    ELSE [c |-> x.c % 36000, r |-> x.r]

\* int(x * 100): truncation toward zero of the rounded product
IntTimes100(x) ==
    IF x.c > 0 /\ x.r < 0 THEN x.c - 1
    ELSE IF x.c < 0 /\ x.r > 0 THEN x.c + 1
    ELSE x.c

\* float(token): [sign] digits [. digits]; anything else raises ValueError.
\* The value is kept to the centidegree (tokens carry at most two decimals).
FloatBody(s) ==
    LET dots == {i \in 1..Len(s) : s[i] = "."}
        dot  == IF dots = {} THEN Len(s) + 1 ELSE CHOOSE i \in dots : TRUE
        ip   == SubSeq(s, 1, dot - 1)
        fp   == SubSeq(s, dot + 1, Len(s))
    IN  IF Cardinality(dots) > 1 \/ ~AllDigits(ip) \/ ~AllDigits(fp)
           \/ Len(ip) + Len(fp) = 0 \/ Len(fp) > 2
        THEN [ok |-> FALSE, c |-> 0]
        ELSE [ok |-> TRUE,
              c  |-> DigitsToNat(ip) * 100
                     + (IF Len(fp) = 1 THEN 10 * DigitsToNat(fp) ELSE DigitsToNat(fp))]

ParseFloat(tok) ==
    IF tok # <<>> /\ Head(tok) = "-"
    THEN LET b == FloatBody(Tail(tok)) IN [ok |-> b.ok, c |-> -(b.c)]
    ELSE IF tok # <<>> /\ Head(tok) = "+" THEN FloatBody(Tail(tok))
    ELSE FloatBody(tok)

\* round(x) for a float x: nearest integer, ties to even
PyRound(c) ==
    LET q == c \div 100
        f == c % 100
    IN  IF f < 50 THEN q
        ELSE IF f > 50 THEN q + 1
        ELSE IF q % 2 = 0 THEN q ELSE q + 1

RECURSIVE NatToStr(_)
NatToStr(n) ==
    IF n < 10 THEN <<DigitChars[n + 1]>>
    ELSE Append(NatToStr(n \div 10), DigitChars[(n % 10) + 1])

IntToStr(n) == IF n < 0 THEN <<"-">> \o NatToStr(-n) ELSE NatToStr(n)

RECURSIVE ZeroPad(_, _)
ZeroPad(s, w) == IF Len(s) >= w THEN s ELSE ZeroPad(<<"0">> \o s, w)

\* format(n, '03d'): the sign counts in the width
Format03d(n) ==
    IF n < 0 THEN <<"-">> \o ZeroPad(NatToStr(-n), 2) ELSE ZeroPad(NatToStr(n), 3)


\* ------------------------------------------------------------------------
\* PelcoDProtocol (core/protocols.py)
\* ------------------------------------------------------------------------
RECURSIVE SumSeq(_)
SumSeq(s) == IF s = <<>> THEN 0 ELSE Head(s) + SumSeq(Tail(s))

generate_packet(command1, command2, data1, data2) ==
    LET header == <<START_BYTE, DEFAULT_ADDRESS, command1, command2, data1, data2>>
    IN  Append(header, SumSeq(Tail(header)) % 256)

\* _validate_response: raises ValueError on an elevation range it rejects,
\* otherwise compares the checksum
validate_response(response, cfg) ==
    LET expected_checksum == SumSeq(SubSeq(response, 2, Len(response) - 1)) % 256
        actual_checksum   == response[Len(response)]
    IN  IF cfg.min_elevation > cfg.max_elevation
        THEN [raised |-> TRUE, valid |-> FALSE]
        ELSE IF cfg.min_elevation < -18000 \/ cfg.max_elevation > 36000
        THEN [raised |-> TRUE, valid |-> FALSE]
        ELSE [raised |-> FALSE, valid |-> expected_checksum = actual_checksum]

FAbs(x) == IF x.c < 0 THEN FNeg(x) ELSE x

\* _apply_angle_correction
apply_angle_correction(raw_value, cmd_type, cfg, rnd) ==
    LET corrected == Fl(raw_value, rnd)
        abs_min   == FAbs(Fl(cfg.min_elevation, rnd))
    IN  IF cmd_type = QUERY_EL
        THEN IntTimes100(FMod360(FAdd(corrected, abs_min, rnd)))
        ELSE IF cmd_type = QUERY_AZ
        THEN IntTimes100(FMod360(
                 FAdd(corrected,
                      FAdd(Fl(cfg.azimuth_offset, rnd), Fl(cfg.initial_azimuth, rnd), rnd),
                      rnd)))
        ELSE raw_value

\* _send_angle_command: the packet handed to hw.send
send_angle_command(angle, command) ==
    LET value == IntTimes100(angle)
        data1 == (value \div 256) % 256
        data2 == value % 256
    IN  generate_packet(0, command, data1, data2)

\* _handle_azimuth: [send |-> FALSE] when it returns False without sending
handle_azimuth(angle) ==
    IF angle.c < 0
    THEN [send |-> FALSE, packet |-> <<>>]
    ELSE [send |-> TRUE,
          packet |-> send_angle_command(IF angle.c > 36000 THEN FMod360(angle) ELSE angle,
                                        SET_AZ)]

\* _handle_elevation
handle_elevation(angle, cfg, rnd) ==
    LET min_elevation == Fl(cfg.min_elevation, rnd)
        abs_min       == FAbs(min_elevation)
        adjusted      == IF ~FLess(angle, abs_min)
                         THEN FAdd(angle, FNeg(abs_min), rnd)
                         ELSE FAdd(FAdd(Fl(36000, rnd), min_elevation, rnd), angle, rnd)
    IN  [send |-> TRUE, packet |-> send_angle_command(adjusted, SET_EL)]

\* variant of set_angle: a command identity without a handler is treated
\* as the azimuth command
set_angle_DefaultAzimuth(angle, set_cmd, cfg, rnd) ==
    IF set_cmd = SET_EL THEN handle_elevation(angle, cfg, rnd)
    ELSE handle_azimuth(angle)

\* set_angle: dispatch on the command identity
set_angle(angle, set_cmd, cfg, rnd) ==
    IF set_cmd = SET_EL THEN handle_elevation(angle, cfg, rnd)
    ELSE IF set_cmd = SET_AZ THEN handle_azimuth(angle)
    ELSE [send |-> FALSE, packet |-> <<>>]

\* ------------------------------------------------------------------------
\* ControlSystem command routing (core/controller.py)
\* ------------------------------------------------------------------------
C2Str == <<"C", "2">>
WStr == <<"W">>
SetPosStr == <<"\\", "s", "e", "t", "_", "p", "o", "s">>
ACK == <<"A", "C", "K", "\r", "\n">>
NoReply == <<>>

IsCombined(cmd) ==
    StartsWith(cmd, C2Str \o WStr) \/ (StartsWith(cmd, WStr) /\ EndsWith(cmd, C2Str))

\* variant of Route: the single-command prefixes are tried before the
\* combined forms
RoutePrefixFirst(cmd) ==
    IF StartsWith(cmd, C2Str) THEN "C2"
    ELSE IF StartsWith(cmd, WStr) THEN "W"
    ELSE IF StartsWith(cmd, SetPosStr) THEN "set_pos"
    ELSE IF IsCombined(cmd) THEN "combined"
    ELSE "none"

\* variant of Route: a line that matches nothing falls through to the query
RouteDefaultQuery(cmd) ==
    IF IsCombined(cmd) THEN "combined"
    ELSE IF StartsWith(cmd, C2Str) THEN "C2"
    ELSE IF StartsWith(cmd, WStr) THEN "W"
    ELSE IF StartsWith(cmd, SetPosStr) THEN "set_pos"
    ELSE "C2"

\* _process_command: which handler the line is routed to
Route(cmd) ==
    IF IsCombined(cmd) THEN "combined"
    ELSE IF StartsWith(cmd, C2Str) THEN "C2"
    ELSE IF StartsWith(cmd, WStr) THEN "W"
    ELSE IF StartsWith(cmd, SetPosStr) THEN "set_pos"
    ELSE "none"

\* the argument string the routed handler receives
HandlerArg(cmd) ==
    IF Route(cmd) = "combined"
    THEN IF StartsWith(cmd, C2Str \o WStr)
         THEN SubSeq(cmd, 4, Len(cmd))
         ELSE SubSeq(cmd, 2, Len(cmd) - 2)
    ELSE IF Route(cmd) = "C2" THEN Strip(SubSeq(cmd, 3, Len(cmd)))
    ELSE IF Route(cmd) = "W" THEN Strip(SubSeq(cmd, 2, Len(cmd)))
    ELSE IF Route(cmd) = "set_pos" THEN Strip(SubSeq(cmd, 9, Len(cmd)))
    ELSE <<>>

\* variant of ParseW: a token that is not a number is read as 0
ParseWDefaultZero(w_cmd) ==
    LET parts == Split(w_cmd)
    IN  IF Len(parts) < 2 THEN [ok |-> FALSE, azi |-> 0, ele |-> 0]
        ELSE [ok |-> TRUE, azi |-> ParseFloat(parts[1]).c, ele |-> ParseFloat(parts[2]).c]

\* _execute_angle_control_command, up to the first set_angle call:
\* IndexError / ValueError give ok = FALSE
ParseW(w_cmd) ==
    LET parts == Split(w_cmd)
    IN  IF Len(parts) < 2 THEN [ok |-> FALSE, azi |-> 0, ele |-> 0]
        ELSE LET a == ParseFloat(parts[1])
                 e == ParseFloat(parts[2])
             IN  IF a.ok /\ e.ok
                 THEN [ok |-> TRUE, azi |-> a.c, ele |-> e.c]
                 ELSE [ok |-> FALSE, azi |-> 0, ele |-> 0]

\* variant of handle_setpos: no check of the sign of the elevation
handle_setpos_NoSignCheck(arg) ==
    LET parts == Split(arg)
    IN  IF Len(parts) # 2 THEN [ok |-> FALSE, w_cmd |-> <<>>]
        ELSE LET a == ParseFloat(parts[1])
                 e == ParseFloat(parts[2])
             IN  IF ~(a.ok /\ e.ok) THEN [ok |-> FALSE, w_cmd |-> <<>>]
                 ELSE [ok |-> TRUE,
                       w_cmd |-> IntToStr(PyRound(a.c)) \o <<" ">> \o IntToStr(PyRound(e.c))]

\* _handle_setpos: the W argument string it delegates, or a rejection
handle_setpos(arg) ==
    LET parts == Split(arg)
    IN  IF Len(parts) # 2 THEN [ok |-> FALSE, w_cmd |-> <<>>]
        ELSE LET a == ParseFloat(parts[1])
                 e == ParseFloat(parts[2])
             IN  IF ~(a.ok /\ e.ok) THEN [ok |-> FALSE, w_cmd |-> <<>>]
                 ELSE IF e.c < 0 THEN [ok |-> FALSE, w_cmd |-> <<>>]
                 ELSE [ok |-> TRUE,
                       w_cmd |-> IntToStr(PyRound(a.c)) \o <<" ">> \o IntToStr(PyRound(e.c))]

\* the parsed (azi, ele) with which the angle-set path starts, if it starts
SetArgs(cmd) ==
    IF Route(cmd) \in {"combined", "W"} THEN ParseW(HandlerArg(cmd))
    ELSE IF Route(cmd) = "set_pos"
    THEN LET d == handle_setpos(HandlerArg(cmd))
         IN  IF d.ok THEN ParseW(d.w_cmd) ELSE [ok |-> FALSE, azi |-> 0, ele |-> 0]
    ELSE [ok |-> FALSE, azi |-> 0, ele |-> 0]

\* variant of FormatAngles: the degrees are not zero-padded
FormatAnglesUnpadded(azimuth, elevation) ==
    <<"A", "Z", "=">> \o IntToStr(azimuth \div 100)
        \o <<" ", "E", "L", "=">> \o IntToStr(elevation \div 100) \o <<"\r", "\n">>

\* _execute_angle_query_command: the formatted reply
FormatAngles(azimuth, elevation) ==
    <<"A", "Z", "=">> \o Format03d(azimuth \div 100)
        \o <<" ", "E", "L", "=">> \o Format03d(elevation \div 100) \o <<"\r", "\n">>


\* ------------------------------------------------------------------------
\* Inputs of the model
\* ------------------------------------------------------------------------
\* rounding direction of the float operations of one step
Rnd == {-1, 0, 1}

\* angle_correction as the configuration loader lets it through
\* (centidegrees): the default, a negative minimum, fractional azimuth
\* offsets, and an elevation range below -180
Cfg(mn, mx, off, ini) ==
    [min_elevation |-> mn, max_elevation |-> mx, azimuth_offset |-> off, initial_azimuth |-> ini]

Configs ==
    { Cfg(0, 9000, 0, 0), Cfg(-3000, 9000, 0, 0), Cfg(0, 9000, -40, 10),
      Cfg(-20000, 9000, 0, 0) }

\* what one recv on the rotator transport delivers; <<>> is a timeout
Inputs ==
    { <<>>,
      <<"C", "2", "\r", "\n">>,
      <<"0xFF", "C", "2">>,
      <<"W", " ", "4", "5", " ", "1", "0", "\r", "\n">>,
      <<"W", " ", "-", "5", " ", "1", "0">>,
      <<"W", " ", "4", "5">>,
      <<"W", " ", "4", "5", " ", "x">>,
      <<"W", " ", "x", " ", "1", "0">>,
      <<"W", " ", "3", "6", "1", " ", "0", ".", "2", "9">>,
      <<"C", "2", "W", "4", "5", " ", "1", "0">>,
      <<"W", "4", "5", " ", "1", "0", "C", "2">>,
      <<"C", "2", "W", "x">>,
      <<"W", "C", "2">>,
      <<"\\", "s", "e", "t", "_", "p", "o", "s", " ", "-", "5", " ", "1", "0">>,
      <<"\\", "s", "e", "t", "_", "p", "o", "s", " ", "4", "5", " ", "-", "1", "0">>,
      <<"\\", "s", "e", "t", "_", "p", "o", "s", " ", "4", "5", ".", "6", " ", "1", "0", ".", "4">>,
      <<"\\", "s", "e", "t", "_", "p", "o", "s", " ", "4", "5">>,
      <<"\\", "s", "e", "t", "_", "p", "o", "s", " ", "4", "5", " ", "x">>,
      <<"g", "a", "r", "b", "a", "g", "e">>,
      <<" ", "\r", "\n">> }

\* raw 16-bit values a positioner response carries
RawSamples == {30, 1000, 4500, 65535}

\* a well-formed positioner response carrying raw (command2 0x59)
ResponseFrame(raw) == generate_packet(0, 89, raw \div 256, raw % 256)

BadChecksumFrame ==
    LET f == ResponseFrame(1000) IN [f EXCEPT ![7] = (f[7] + 1) % 256]

ShortFrame == <<START_BYTE, DEFAULT_ADDRESS, 0>>

\* what hw.recv(7, timeout=1.0) can return after the query `packet` was sent
Responses(packet) ==
    {<<>>, packet, ShortFrame, BadChecksumFrame} \cup {ResponseFrame(raw) : raw \in RawSamples}

\* what hw.recv(1024, timeout=0.1) can return while the buffer is drained
StaleData == {<<>>, ShortFrame, ResponseFrame(4500)}

\* outcome of query_angle: pending, None, an exception, or the corrected
\* value v decoded from raw_value raw
NoResult == [kind |-> "pending", v |-> 0, raw |-> 0]
NoneResult == [kind |-> "None", v |-> 0, raw |-> 0]
Raised == [kind |-> "raise", v |-> 0, raw |-> 0]
Value(n, raw_value) == [kind |-> "value", v |-> n, raw |-> raw_value]

\* ------------------------------------------------------------------------
\* State
\* ------------------------------------------------------------------------
VARIABLES
    config,      \* self.config["pelco"]["angle_correction"]
    pc,          \* position of the worker thread (_run)
    cmd,         \* the parsed command of the input being processed
    azi, ele,    \* locals of _execute_angle_control_command (centidegrees)
    sent,        \* packets handed to pelco.hw.send for this input, with the result
    set_cmd,     \* set_cmd argument of the last set_angle call for this input, 0 if none
    set_res,     \* what that call returned: "True", "False", or "none" if it did not return
    query_cmd,   \* argument of the running query_angle call
    drains,      \* drain reads of the running query_angle call that returned data
    lastRecv,    \* what the last drain read of the running call returned
    sendOk,      \* result of hw.send in the running query_angle call
    reads,       \* responses read by the retry loop of the running query_angle call
    qres,        \* outcome of the query_angle call
    azimuth,     \* results in _execute_angle_query_command
    elevation,
    response,    \* the reply _process_command returned
    rotatorOut,  \* what was sent on the rotator transport for this input
    raisedExc,   \* the iteration ended in the except clause of _run
    kinds,       \* self.config[device]["protocol"] of the two devices, and whether
                 \* the handler classes take the log callback as an argument
    running,     \* self.running
    gs232b,      \* self.gs232b: "None" or "handler"
    gsConn,      \* the rotator transport: "none", "open" or "closed"
    pelco,       \* self.pelco: "None" or "protocol"
    pelcoConn,   \* the positioner transport (pelco.hw): "none", "open" or "closed"
    thread,      \* self.thread: 0 while the attribute is unset, else the thread's number
    alive,       \* the threads whose _run has not returned
    busy,        \* threads other than the first that are inside a positioner call
    caller,      \* position of the thread that calls __init__, start and stop
    done,        \* the last call that ended, and how
    joined       \* what the last stop() did about the worker

vars == <<config, pc, cmd, azi, ele, sent, set_cmd, set_res, query_cmd, drains, lastRecv, sendOk, reads,
          qres, azimuth, elevation, response, rotatorOut, raisedExc,
          kinds, running, gs232b, gsConn, pelco, pelcoConn, thread, alive, busy,
          caller, done, joined>>

setVars == <<azi, ele, sent, set_cmd, set_res>>
queryVars == <<query_cmd, drains, lastRecv, sendOk, reads, qres>>
resultVars == <<azimuth, elevation>>
outVars == <<response, rotatorOut, raisedExc>>
workerVars == <<pc, cmd, setVars, queryVars, resultVars, outVars>>
connVars == <<gs232b, gsConn, pelco, pelcoConn>>
threadVars == <<running, thread, alive, busy>>
callVars == <<caller, done, joined>>
lifeVars == <<kinds, connVars, threadVars, callVars>>

\* a ControlSystem can only be constructed from handler classes that take
\* the (config, log) arguments _create_handler passes
Kinds(g, p) == [gs232b |-> g, pelco |-> p, log_arg |-> TRUE]

\* the worker's variables before its first input
WorkerInit ==
    /\ pc = "poll"
    /\ cmd = <<>>
    /\ azi = 0
    /\ ele = 0
    /\ sent = <<>>
    /\ set_cmd = 0
    /\ set_res = "none"
    /\ query_cmd = 0
    /\ drains = 0
    /\ lastRecv = <<>>
    /\ sendOk = FALSE
    /\ reads = <<>>
    /\ qres = NoResult
    /\ azimuth = NoResult
    /\ elevation = NoResult
    /\ response = NoReply
    /\ rotatorOut = <<>>
    /\ raisedExc = FALSE

\* a ControlSystem whose __init__ returned: both transports connected
Constructed ==
    /\ gs232b = "handler"
    /\ gsConn = "open"
    /\ pelco = "protocol"
    /\ pelcoConn = "open"
    /\ caller = "idle"
    /\ done = "init"
    /\ joined = "none"
    /\ busy = {}

\* a constructed and started ControlSystem (serial transports, the default)
Init ==
    /\ config \in Configs
    /\ WorkerInit
    /\ kinds = Kinds("serial", "serial")
    /\ Constructed
    /\ running = TRUE
    /\ thread = 1
    /\ alive = {1}


\* ------------------------------------------------------------------------
\* The worker thread: one action per transport call of _run
\* ------------------------------------------------------------------------
Min(a, b) == IF a < b THEN a ELSE b

QueryPacket(q) == generate_packet(0, q, 0, 0)

\* a bool as the variables of the model hold it
BoolStr(b) == IF b THEN "True" ELSE "False"

\* the first thread is inside _run
Awake == 1 \in alive

\* self.pelco is None: self.pelco.set_angle / query_angle raises AttributeError
PelcoGone == pelco = "None"

\* SerialHandler.send raises ConnectionAbortedError when not connected;
\* TCPHandler.send and UDPHandler.send return False
SendRaises == pelcoConn # "open" /\ kinds.pelco = "serial"

\* a send on a transport that is not connected does not succeed
SendResult(ok) == pelcoConn # "open" => ~ok

\* a recv on a transport that is not connected returns b"" (the handlers
\* catch the exception)
RecvResult(data) == pelcoConn # "open" => data = <<>>

\* self.gs232b.send raises: the reference is None, or a serial port is closed
RotatorSendRaises ==
    gs232b = "None" \/ (gsConn # "open" /\ kinds.gs232b = "serial")

\* entry of query_angle(q)
StartQuery(q) ==
    /\ query_cmd' = q
    /\ drains' = 0
    /\ lastRecv' = <<>>
    /\ sendOk' = FALSE
    /\ reads' = <<>>
    /\ qres' = NoResult
    /\ pc' = "q_drain"

\* no query_angle call is running
NoQuery ==
    /\ query_cmd' = 0
    /\ drains' = 0
    /\ lastRecv' = <<>>
    /\ sendOk' = FALSE
    /\ reads' = <<>>
    /\ qres' = NoResult

\* _run: the loop test, gs232b.recv(1024, timeout=1.0), parse_command and the
\* part of _process_command that precedes the first positioner call
Recv(data) ==
    /\ pc = "poll"
    /\ Awake
    /\ running
    /\ gsConn # "open" => data = <<>>
    /\ UNCHANGED <<config, lifeVars>>
    /\ IF gs232b = "None"
       THEN /\ raisedExc' = TRUE
            /\ UNCHANGED <<pc, cmd, setVars, queryVars, resultVars, response, rotatorOut>>
       ELSE IF data = <<>>
       THEN UNCHANGED workerVars
       ELSE LET c    == parse_command(data)
                args == SetArgs(c)
            IN  /\ cmd' = c
                /\ sent' = <<>>
                /\ set_cmd' = 0
                /\ set_res' = "none"
                /\ azimuth' = NoResult
                /\ elevation' = NoResult
                /\ response' = NoReply
                /\ rotatorOut' = <<>>
                /\ raisedExc' = (Route(c) = "C2" /\ PelcoGone)
                /\ IF Route(c) = "C2"
                   THEN /\ azi' = 0
                        /\ ele' = 0
                        /\ IF PelcoGone THEN NoQuery /\ pc' = "poll"
                                        ELSE StartQuery(QUERY_AZ)
                   ELSE /\ NoQuery
                        /\ IF Route(c) \in {"combined", "W", "set_pos"} /\ args.ok
                           THEN azi' = args.azi /\ ele' = args.ele /\ pc' = "set_az"
                           ELSE azi' = 0 /\ ele' = 0 /\ pc' = "poll"

\* variant of SetAzimuth: the elevation set follows whatever the azimuth set
\* returned
SetAzimuthUntested(ok, rnd) ==
    /\ pc = "set_az"
    /\ Awake
    /\ SendResult(ok)
    /\ LET h == set_angle(Fl(azi, rnd), SET_AZ, config, rnd)
       IN  sent' = IF h.send THEN Append(sent, [packet |-> h.packet, ok |-> ok]) ELSE sent
    /\ set_cmd' = SET_AZ
    /\ set_res' = BoolStr(ok)
    /\ pc' = "set_el"
    /\ raisedExc' = raisedExc
    /\ UNCHANGED <<config, cmd, azi, ele, queryVars, resultVars, response, rotatorOut,
                   lifeVars>>

\* _execute_angle_control_command: self.pelco.set_angle(azi, 0x4B)
SetAzimuth(ok, rnd) ==
    /\ pc = "set_az"
    /\ Awake
    /\ SendResult(ok)
    /\ LET h == set_angle(Fl(azi, rnd), SET_AZ, config, rnd)
       IN  IF PelcoGone \/ (h.send /\ SendRaises)
           THEN /\ sent' = sent
                /\ set_cmd' = IF PelcoGone THEN set_cmd ELSE SET_AZ
                /\ set_res' = set_res
                /\ pc' = "poll"
                /\ raisedExc' = TRUE
           ELSE IF h.send
           THEN /\ sent' = Append(sent, [packet |-> h.packet, ok |-> ok])
                /\ set_cmd' = SET_AZ
                /\ set_res' = BoolStr(ok)
                /\ pc' = IF ok THEN "set_el" ELSE "poll"
                /\ raisedExc' = raisedExc
           ELSE /\ sent' = sent
                /\ set_cmd' = SET_AZ
                /\ set_res' = "False"
                /\ pc' = "poll"
                /\ raisedExc' = raisedExc
    /\ UNCHANGED <<config, cmd, azi, ele, queryVars, resultVars, response, rotatorOut,
                   lifeVars>>

\* _execute_angle_control_command: self.pelco.set_angle(ele, 0x4D) and what
\* follows a success: "ACK\r\n", or the query path of the combined command
SetElevation(ok, rnd) ==
    /\ pc = "set_el"
    /\ Awake
    /\ SendResult(ok)
    /\ IF PelcoGone \/ SendRaises
       THEN /\ pc' = "poll"
            /\ raisedExc' = TRUE
            /\ set_cmd' = IF PelcoGone THEN set_cmd ELSE SET_EL
            /\ set_res' = IF PelcoGone THEN set_res ELSE "none"
            /\ UNCHANGED <<sent, queryVars, response>>
       ELSE /\ LET h == set_angle(Fl(ele, rnd), SET_EL, config, rnd)
               IN  sent' = Append(sent, [packet |-> h.packet, ok |-> ok])
            /\ set_cmd' = SET_EL
            /\ set_res' = BoolStr(ok)
            /\ raisedExc' = raisedExc
            /\ IF ~ok
               THEN pc' = "poll" /\ UNCHANGED <<queryVars, response>>
               ELSE IF Route(cmd) = "combined"
               THEN StartQuery(QUERY_AZ) /\ UNCHANGED response
               ELSE pc' = "reply" /\ response' = ACK /\ UNCHANGED queryVars
    /\ UNCHANGED <<config, cmd, azi, ele, resultVars, rotatorOut, lifeVars>>

\* query_angle: while self.hw.recv(1024, timeout=0.1): pass
DrainRead(data) ==
    /\ pc = "q_drain"
    /\ Awake
    /\ RecvResult(data)
    /\ lastRecv' = data
    /\ IF data # <<>>
       THEN drains' = Min(drains + 1, MaxDrain) /\ pc' = "q_drain"
       ELSE drains' = drains /\ pc' = "q_send"
    /\ UNCHANGED <<config, cmd, setVars, query_cmd, sendOk, reads, qres, resultVars, outVars,
                   lifeVars>>

\* variant of SendQuery: the result of hw.send is not tested
SendQueryUntested(ok) ==
    /\ pc = "q_send"
    /\ Awake
    /\ SendResult(ok)
    /\ sent' = Append(sent, [packet |-> QueryPacket(query_cmd), ok |-> ok])
    /\ sendOk' = ok
    /\ pc' = "q_read"
    /\ qres' = qres
    /\ UNCHANGED <<config, cmd, azi, ele, set_cmd, set_res, query_cmd, drains, lastRecv, reads,
                   resultVars, outVars, lifeVars>>

\* query_angle: if not self.hw.send(packet): return None
SendQuery(ok) ==
    /\ pc = "q_send"
    /\ Awake
    /\ SendResult(ok)
    /\ IF SendRaises
       THEN /\ sent' = sent
            /\ sendOk' = FALSE
            /\ pc' = "q_ret"
            /\ qres' = Raised
       ELSE /\ sent' = Append(sent, [packet |-> QueryPacket(query_cmd), ok |-> ok])
            /\ sendOk' = ok
            /\ IF ok
               THEN pc' = "q_read" /\ qres' = qres
               ELSE pc' = "q_ret" /\ qres' = NoneResult
    /\ UNCHANGED <<config, cmd, azi, ele, set_cmd, set_res, query_cmd, drains, lastRecv, reads,
                   resultVars, outVars, lifeVars>>

\* query_angle: one iteration of `for _ in range(max_retries)`
ReadResponse(resp, rnd) ==
    /\ pc = "q_read"
    /\ Awake
    /\ RecvResult(resp)
    /\ Len(reads) < max_retries
    /\ resp \in Responses(QueryPacket(query_cmd))
    /\ reads' = Append(reads, resp)
    /\ LET packet   == QueryPacket(query_cmd)
           skipped  == resp = <<>> \/ resp = packet
           check    == validate_response(resp, config)
           continue == IF Len(reads) + 1 = max_retries
                       THEN pc' = "q_ret" /\ qres' = NoneResult
                       ELSE pc' = "q_read" /\ qres' = qres
       IN  IF skipped THEN continue
           ELSE IF Len(resp) # 7 THEN continue
           ELSE IF check.raised THEN pc' = "q_ret" /\ qres' = Raised
           ELSE IF check.valid
           THEN /\ pc' = "q_ret"
                /\ LET raw_value == resp[5] * 256 + resp[6]
                   IN  qres' = Value(apply_angle_correction(raw_value, query_cmd, config, rnd),
                                     raw_value)
           ELSE continue
    /\ UNCHANGED <<config, cmd, setVars, query_cmd, drains, lastRecv, sendOk, resultVars,
                   outVars, lifeVars>>

\* return of query_angle where an exception is not caught by the loop and
\* ends the thread
QueryReturnFatal ==
    /\ pc = "q_ret"
    /\ Awake
    /\ IF qres.kind = "raise"
       THEN /\ pc' = "poll"
            /\ raisedExc' = TRUE
            /\ alive' = alive \ {1}
            /\ UNCHANGED <<queryVars, resultVars, response>>
       ELSE IF query_cmd = QUERY_AZ
       THEN /\ azimuth' = qres
            /\ IF PelcoGone
               THEN pc' = "poll" /\ raisedExc' = TRUE /\ UNCHANGED queryVars
               ELSE StartQuery(QUERY_EL) /\ raisedExc' = raisedExc
            /\ UNCHANGED <<elevation, response, alive>>
       ELSE /\ elevation' = qres
            /\ IF azimuth.kind = "value" /\ qres.kind = "value"
               THEN pc' = "reply" /\ response' = FormatAngles(azimuth.v, qres.v)
               ELSE pc' = "poll" /\ response' = response
            /\ UNCHANGED <<queryVars, azimuth, raisedExc, alive>>
    /\ UNCHANGED <<config, cmd, setVars, rotatorOut, kinds, connVars, running, thread, busy,
                   callVars>>

\* return of query_angle into _execute_angle_query_command (or, for an
\* exception, into the except clause of _run)
QueryReturn ==
    /\ pc = "q_ret"
    /\ Awake
    /\ IF qres.kind = "raise"
       THEN /\ pc' = "poll"
            /\ raisedExc' = TRUE
            /\ UNCHANGED <<queryVars, resultVars, response>>
       ELSE IF query_cmd = QUERY_AZ
       THEN /\ azimuth' = qres
            /\ IF PelcoGone
               THEN pc' = "poll" /\ raisedExc' = TRUE /\ UNCHANGED queryVars
               ELSE StartQuery(QUERY_EL) /\ raisedExc' = raisedExc
            /\ UNCHANGED <<elevation, response>>
       ELSE /\ elevation' = qres
            /\ IF azimuth.kind = "value" /\ qres.kind = "value"
               THEN pc' = "reply" /\ response' = FormatAngles(azimuth.v, qres.v)
               ELSE pc' = "poll" /\ response' = response
            /\ UNCHANGED <<queryVars, azimuth, raisedExc>>
    /\ UNCHANGED <<config, cmd, setVars, rotatorOut, lifeVars>>

\* _run: if response: self.gs232b.send(response.encode())
SendReply ==
    /\ pc = "reply"
    /\ Awake
    /\ IF response = NoReply
       THEN UNCHANGED <<rotatorOut, raisedExc>>
       ELSE IF RotatorSendRaises
       THEN rotatorOut' = rotatorOut /\ raisedExc' = TRUE
       ELSE /\ rotatorOut' = IF gsConn = "open" THEN Append(rotatorOut, response)
                                                ELSE rotatorOut
            /\ raisedExc' = raisedExc
    /\ pc' = "poll"
    /\ UNCHANGED <<config, cmd, setVars, queryVars, resultVars, response, lifeVars>>

Next ==
    \/ \E data \in Inputs : Recv(data)
    \/ \E ok \in BOOLEAN, rnd \in Rnd : SetAzimuth(ok, rnd)
    \/ \E ok \in BOOLEAN, rnd \in Rnd : SetElevation(ok, rnd)
    \/ \E data \in StaleData : DrainRead(data)
    \/ \E ok \in BOOLEAN : SendQuery(ok)
    \/ \E resp \in Responses(QueryPacket(query_cmd)), rnd \in Rnd : ReadResponse(resp, rnd)
    \/ QueryReturn
    \/ SendReply

Spec == Init /\ [][Next]_vars

\* the worker thread keeps running: every step it can take is eventually taken
FairSpec == Spec /\ WF_vars(Next)

\* ------------------------------------------------------------------------
\* The codec's angle transforms applied to chosen inputs: set_angle(0x4D)
\* followed by the elevation correction of what it put on the wire, and
\* the correction of a raw value
\* ------------------------------------------------------------------------
\* angle_correction values inside the documented ranges
ValidConfig(cfg) ==
    /\ cfg.min_elevation <= cfg.max_elevation
    /\ cfg.min_elevation >= -18000
    /\ cfg.max_elevation <= 36000
    /\ cfg.azimuth_offset >= -36000
    /\ cfg.azimuth_offset <= 36000
    /\ cfg.initial_azimuth >= 0
    /\ cfg.initial_azimuth <= 36000

CodecConfigs ==
    { Cfg(0, 9000, 0, 0), Cfg(-3000, 9000, 0, 0), Cfg(0, 9000, -40, 10),
      Cfg(1000, 9000, 0, 0), Cfg(-18000, 36000, 0, 0) }

\* elevation angles (centidegrees) inside the configured range: the ends of
\* the range, angles that are exact doubles, and one angle that is not
ElevationSamples(cfg) ==
    { a \in {cfg.min_elevation, cfg.max_elevation, -50, 0, 1000, 3000, 4525} :
        cfg.min_elevation <= a /\ a <= cfg.max_elevation }
    \cup { IF cfg.min_elevation = 0 THEN 58
           ELSE IF cfg.min_elevation = -3000 THEN 6402
           ELSE IF cfg.min_elevation = 1000 THEN 1004
           ELSE 6421 }

\* raw 16-bit values handed to the correction
RawWide == {0, 29, 30, 1000, 4500, 33000, 35999, 36000, 36030, 65535}

CodecInit ==
    /\ config \in CodecConfigs
    /\ pc \in {"codec_set", "codec_correct"}
    /\ ele \in IF pc = "codec_set" THEN ElevationSamples(config) ELSE {0}
    /\ cmd = <<>>
    /\ azi = 0
    /\ sent = <<>>
    /\ set_cmd = 0
    /\ set_res = "none"
    /\ query_cmd = 0
    /\ drains = 0
    /\ lastRecv = <<>>
    /\ sendOk = FALSE
    /\ reads = <<>>
    /\ qres = NoResult
    /\ azimuth = NoResult
    /\ elevation = NoResult
    /\ response = NoReply
    /\ rotatorOut = <<>>
    /\ raisedExc = FALSE
    /\ kinds = Kinds("serial", "serial")
    /\ Constructed
    /\ running = FALSE
    /\ thread = 0
    /\ alive = {}

\* set_angle(ele, 0x4D) on a transport that accepts the packet
CodecSet(rnd) ==
    /\ pc = "codec_set"
    /\ LET h == set_angle(Fl(ele, rnd), SET_EL, config, rnd)
       IN  sent' = <<[packet |-> h.packet, ok |-> TRUE]>>
    /\ set_cmd' = SET_EL
    /\ set_res' = "True"
    /\ pc' = "codec_query"
    /\ UNCHANGED <<config, cmd, azi, ele, queryVars, resultVars, outVars, lifeVars>>

\* _apply_angle_correction(raw, 0x53) of the raw value the set packet carries
CodecQuery(rnd) ==
    /\ pc = "codec_query"
    /\ LET raw_value == sent[1].packet[5] * 256 + sent[1].packet[6]
       IN  qres' = Value(apply_angle_correction(raw_value, QUERY_EL, config, rnd), raw_value)
    /\ query_cmd' = QUERY_EL
    /\ pc' = "codec_done"
    /\ UNCHANGED <<config, cmd, setVars, drains, lastRecv, sendOk, reads, resultVars, outVars,
                   lifeVars>>

\* _apply_angle_correction(raw_value, q)
CodecCorrect(q, raw_value, rnd) ==
    /\ pc = "codec_correct"
    /\ qres' = Value(apply_angle_correction(raw_value, q, config, rnd), raw_value)
    /\ query_cmd' = q
    /\ pc' = "codec_done"
    /\ UNCHANGED <<config, cmd, setVars, drains, lastRecv, sendOk, reads, resultVars, outVars,
                   lifeVars>>

CodecNext ==
    \/ \E rnd \in Rnd : CodecSet(rnd)
    \/ \E rnd \in Rnd : CodecQuery(rnd)
    \/ \E q \in {QUERY_AZ, QUERY_EL}, raw_value \in RawWide, rnd \in Rnd :
           CodecCorrect(q, raw_value, rnd)

CodecSpec == CodecInit /\ [][CodecNext]_vars

\* ------------------------------------------------------------------------
\* One set_angle call on chosen arguments: the two set commands, and
\* command identities set_angle has no handler for
\* ------------------------------------------------------------------------
\* set_cmd arguments: 0x4B, 0x4D, a query identity and 0
SetCommands == {SET_AZ, SET_EL, QUERY_AZ, 0}

\* azimuth angles (centidegrees): negative, the ends of the circle, more
\* than a turn, and two angles (0.29, 1000.29) that are not exact doubles
AzimuthSamples == {-100, -25, 0, 29, 4500, 35975, 36000, 36050, 36100, 72000, 100029}

\* elevation angles (centidegrees) as the W command passes them on: it
\* does not compare them with the configured range
SetElevationSamples == {-40000, -1000, 0, 1000, 4500, 9000, 65600, 70000}

\* the angle argument of the call
SetAngleArg == IF set_cmd = SET_AZ THEN azi ELSE ele

SetInit ==
    /\ config \in CodecConfigs
    /\ pc = "codec_angle"
    /\ set_cmd \in SetCommands
    /\ azi \in IF set_cmd = SET_AZ THEN AzimuthSamples ELSE {0}
    /\ ele \in IF set_cmd = SET_AZ THEN {0} ELSE SetElevationSamples
    /\ set_res = "none"
    /\ cmd = <<>>
    /\ sent = <<>>
    /\ query_cmd = 0
    /\ drains = 0
    /\ lastRecv = <<>>
    /\ sendOk = FALSE
    /\ reads = <<>>
    /\ qres = NoResult
    /\ azimuth = NoResult
    /\ elevation = NoResult
    /\ response = NoReply
    /\ rotatorOut = <<>>
    /\ raisedExc = FALSE
    /\ kinds = Kinds("serial", "tcp")
    /\ Constructed
    /\ running = FALSE
    /\ thread = 0
    /\ alive = {}

\* set_angle(angle, set_cmd); ok is what hw.send returns if it is called
SetAngle(ok, rnd) ==
    /\ pc = "codec_angle"
    /\ LET h == set_angle(Fl(SetAngleArg, rnd), set_cmd, config, rnd)
       IN  /\ sent' = IF h.send THEN <<[packet |-> h.packet, ok |-> ok]>> ELSE <<>>
           /\ set_res' = IF h.send THEN BoolStr(ok) ELSE "False"
    /\ pc' = "codec_sent"
    /\ UNCHANGED <<config, cmd, azi, ele, set_cmd, queryVars, resultVars, outVars, lifeVars>>

SetNext == \E ok \in BOOLEAN, rnd \in Rnd : SetAngle(ok, rnd)

SetSpec == SetInit /\ [][SetNext]_vars

\* ------------------------------------------------------------------------
\* Lifecycle: start() and stop() called by one thread (the user-interface
\* thread, toggle_system) while the worker runs.  The first thread start()
\* creates is followed statement by statement (pc); of a later thread the
\* model keeps whether it is alive and whether it is inside a positioner
\* call.
\* ------------------------------------------------------------------------
\* variant of WorkerExit: the loop is left only after an exception
WorkerExitOnError ==
    /\ pc = "poll"
    /\ Awake
    /\ ~running
    /\ raisedExc
    /\ alive' = alive \ {1}
    /\ UNCHANGED <<config, workerVars, kinds, connVars, running, thread, busy, callVars>>

\* _run: the loop test fails and the thread ends
WorkerExit ==
    /\ pc = "poll"
    /\ Awake
    /\ ~running
    /\ alive' = alive \ {1}
    /\ UNCHANGED <<config, workerVars, kinds, connVars, running, thread, busy, callVars>>

\* _run of a later thread: self.gs232b.recv raises AttributeError while the
\* reference is None and the loop goes on; with a handler in place it reads a
\* command and calls into self.pelco
OtherPoll(t) ==
    /\ t \in alive \ {1}
    /\ t \notin busy
    /\ running
    /\ busy' = IF gs232b = "None" THEN busy ELSE busy \cup {t}
    /\ UNCHANGED <<config, workerVars, kinds, connVars, running, thread, alive, callVars>>

\* _run of a later thread: the loop test fails and the thread ends
OtherExit(t) ==
    /\ t \in alive \ {1}
    /\ t \notin busy
    /\ ~running
    /\ alive' = alive \ {t}
    /\ UNCHANGED <<config, workerVars, kinds, connVars, running, thread, busy, callVars>>

\* start() that creates a thread whether or not the flag is set
StartAlways ==
    /\ caller = "idle"
    /\ thread < MaxThreads
    /\ running' = TRUE
    /\ thread' = thread + 1
    /\ alive' = alive \cup {thread + 1}
    /\ done' = "start"
    /\ UNCHANGED <<config, workerVars, kinds, connVars, busy, caller, joined>>

\* start()
Start ==
    /\ caller = "idle"
    /\ running \/ thread < MaxThreads
    /\ IF running
       THEN /\ done' = "start_noop"
            /\ UNCHANGED <<running, thread, alive>>
       ELSE /\ running' = TRUE
            /\ thread' = thread + 1
            /\ alive' = alive \cup {thread + 1}
            /\ done' = "start"
    /\ UNCHANGED <<config, workerVars, kinds, connVars, busy, caller, joined>>

\* stop(): with self._connection_lock: self.running = False
StopBegin ==
    /\ caller = "idle"
    /\ running' = FALSE
    /\ caller' = "stop_rotator"
    /\ joined' = "none"
    /\ UNCHANGED <<config, workerVars, kinds, connVars, thread, alive, busy, done>>

\* stop(): if self.gs232b: self.gs232b.close(); self.gs232b = None
StopRotator ==
    /\ caller = "stop_rotator"
    /\ IF gs232b # "None"
       THEN gsConn' = "closed" /\ gs232b' = "None"
       ELSE UNCHANGED <<gsConn, gs232b>>
    /\ caller' = "stop_pelco"
    /\ UNCHANGED <<config, workerVars, kinds, pelco, pelcoConn, threadVars, done, joined>>

\* stop(): if self.pelco: self.pelco.hw.close(); self.pelco = None
StopPelco ==
    /\ caller = "stop_pelco"
    /\ IF pelco # "None"
       THEN pelcoConn' = "closed" /\ pelco' = "None"
       ELSE UNCHANGED <<pelcoConn, pelco>>
    /\ caller' = "stop_thread"
    /\ UNCHANGED <<config, workerVars, kinds, gs232b, gsConn, threadVars, done, joined>>

\* stop(): if self.thread.is_alive(): the attribute does not exist before the
\* first start() (AttributeError out of stop); a thread that ended is not joined
StopThread ==
    /\ caller = "stop_thread"
    /\ IF thread = 0
       THEN caller' = "idle" /\ done' = "stop_raised" /\ joined' = joined
       ELSE IF thread \in alive
       THEN caller' = "stop_join" /\ done' = done /\ joined' = joined
       ELSE caller' = "idle" /\ done' = "stop" /\ joined' = "not_alive"
    /\ UNCHANGED <<config, workerVars, kinds, connVars, threadVars>>

\* stop(): self.thread.join(timeout=5) returns when the thread has ended, or
\* after five seconds with the thread still alive
StopJoin(timeout) ==
    /\ caller = "stop_join"
    /\ timeout <=> thread \in alive
    /\ joined' = IF timeout THEN "timeout" ELSE "finished"
    /\ caller' = "idle"
    /\ done' = "stop"
    /\ UNCHANGED <<config, workerVars, kinds, connVars, threadVars>>

LifeConfigs == {Cfg(0, 9000, 0, 0), Cfg(-20000, 9000, 0, 0)}

LifeInputs ==
    { <<>>,
      <<"C", "2", "\r", "\n">>,
      <<"W", " ", "4", "5", " ", "1", "0", "\r", "\n">>,
      <<"C", "2", "W", "4", "5", " ", "1", "0">>,
      <<"g", "a", "r", "b", "a", "g", "e">> }

LifeResponses == {<<>>, BadChecksumFrame, ResponseFrame(4500)}

LifeStale == {<<>>, ShortFrame}

\* the angles of LifeInputs and LifeResponses are exact doubles
LifeRnd == {0}

\* a constructed ControlSystem that was not started yet; the rotator client
\* connects over TCP, the positioner is on a serial line or on TCP
LifeInit ==
    /\ config \in LifeConfigs
    /\ WorkerInit
    /\ kinds \in {Kinds("tcp", "serial"), Kinds("tcp", "tcp")}
    /\ Constructed
    /\ running = FALSE
    /\ thread = 0
    /\ alive = {}

LifeNext ==
    \/ \E data \in LifeInputs : Recv(data)
    \/ \E ok \in BOOLEAN, rnd \in LifeRnd : SetAzimuth(ok, rnd)
    \/ \E ok \in BOOLEAN, rnd \in LifeRnd : SetElevation(ok, rnd)
    \/ \E data \in LifeStale : DrainRead(data)
    \/ \E ok \in BOOLEAN : SendQuery(ok)
    \/ \E resp \in LifeResponses, rnd \in LifeRnd : ReadResponse(resp, rnd)
    \/ QueryReturn
    \/ SendReply
    \/ WorkerExit
    \/ \E t \in 2..MaxThreads : OtherPoll(t)
    \/ \E t \in 2..MaxThreads : OtherExit(t)
    \/ Start
    \/ StopBegin
    \/ StopRotator
    \/ StopPelco
    \/ StopThread
    \/ \E timeout \in BOOLEAN : StopJoin(timeout)

LifeSpec == LifeInit /\ [][LifeNext]_vars

\* ------------------------------------------------------------------------
\* Lifecycle while every transport call returns within its timeout.  What
\* is left of the worker's iteration when stop() has closed both transports
\* is the call in flight (one second at most) and calls that fail at once,
\* so join(timeout=5) returns because the thread has ended.  The threads
\* are scheduled fairly.
\* ------------------------------------------------------------------------
\* the steps of the first worker thread
WorkerStep ==
    \/ \E data \in LifeInputs : Recv(data)
    \/ \E ok \in BOOLEAN, rnd \in LifeRnd : SetAzimuth(ok, rnd)
    \/ \E ok \in BOOLEAN, rnd \in LifeRnd : SetElevation(ok, rnd)
    \/ \E data \in LifeStale : DrainRead(data)
    \/ \E ok \in BOOLEAN : SendQuery(ok)
    \/ \E resp \in LifeResponses, rnd \in LifeRnd : ReadResponse(resp, rnd)
    \/ QueryReturn
    \/ SendReply
    \/ WorkerExit

\* the steps of stop() after the flag is cleared, up to the join
StopStep == StopRotator \/ StopPelco \/ StopThread

TimelyNext ==
    \/ WorkerStep
    \/ \E t \in 2..MaxThreads : OtherPoll(t)
    \/ \E t \in 2..MaxThreads : OtherExit(t)
    \/ Start
    \/ StopBegin
    \/ StopStep
    \/ StopJoin(FALSE)

TimelySpec ==
    /\ LifeInit
    /\ [][TimelyNext]_vars
    /\ WF_vars(WorkerStep)
    /\ WF_vars(StopStep)
    /\ \A t \in 2..MaxThreads : WF_vars(OtherExit(t))

\* ------------------------------------------------------------------------
\* Construction: __init__ and _init_connections
\* ------------------------------------------------------------------------
TransportKinds == {"serial", "tcp", "udp"}

\* what connect() of a transport does: returns True, returns False, or
\* raises ConnectionError
ConnectResults == {"True", "False", "raise"}

InitErrors == {"init_KeyError", "init_TypeError", "init_ConnectionError"}

\* _create_handler: the exception it raises, or "init" when it returns a
\* connected handler.  handlers has the keys "serial" and "tcp" only; the
\* class is called with (config, self.log), which raises TypeError unless it
\* accepts the log argument (the classes of hardware/interfaces.py take
\* config only); connect() returning False raises ConnectionError
create_handler(kind, accepts, connected) ==
    IF kind \notin {"serial", "tcp"} THEN "init_KeyError"
    ELSE IF ~accepts THEN "init_TypeError"
    ELSE IF connected # "True" THEN "init_ConnectionError"
    ELSE "init"

\* __init__ up to the first _create_handler call
InitInit ==
    /\ config \in Configs
    /\ WorkerInit
    /\ kinds \in [gs232b : TransportKinds, pelco : TransportKinds, log_arg : BOOLEAN]
    /\ gs232b = "None"
    /\ gsConn = "none"
    /\ pelco = "None"
    /\ pelcoConn = "none"
    /\ running = FALSE
    /\ thread = 0
    /\ alive = {}
    /\ busy = {}
    /\ caller = "init_rotator"
    /\ done = "none"
    /\ joined = "none"

\* _init_connections: nothing to close (both references are None), then
\* self.gs232b = self._create_handler("gs232b"); an exception is logged and
\* raised again, out of __init__
CreateRotator(connected) ==
    /\ caller = "init_rotator"
    /\ LET res == create_handler(kinds.gs232b, kinds.log_arg, connected)
       IN  IF res = "init"
           THEN /\ gs232b' = "handler"
                /\ gsConn' = "open"
                /\ caller' = "init_pelco"
                /\ done' = done
           ELSE /\ UNCHANGED <<gs232b, gsConn>>
                /\ caller' = "idle"
                /\ done' = res
    /\ UNCHANGED <<config, workerVars, kinds, pelco, pelcoConn, threadVars, joined>>

\* _init_connections: pelco_hw = self._create_handler("pelco");
\* self.pelco = PelcoDProtocol(pelco_hw, self.config["pelco"])
CreatePelco(connected) ==
    /\ caller = "init_pelco"
    /\ LET res == create_handler(kinds.pelco, kinds.log_arg, connected)
       IN  IF res = "init"
           THEN /\ pelco' = "protocol"
                /\ pelcoConn' = "open"
           ELSE UNCHANGED <<pelco, pelcoConn>>
    /\ caller' = "idle"
    /\ done' = create_handler(kinds.pelco, kinds.log_arg, connected)
    /\ UNCHANGED <<config, workerVars, kinds, gs232b, gsConn, threadVars, joined>>

InitNext ==
    \/ \E connected \in ConnectResults : CreateRotator(connected)
    \/ \E connected \in ConnectResults : CreatePelco(connected)

InitSpec == InitInit /\ [][InitNext]_vars

\* ------------------------------------------------------------------------
\* Vocabulary of the properties
\* ------------------------------------------------------------------------
\* the iteration of _run that processes cmd is over
Done == pc = "poll"

Replied == rotatorOut # <<>>

\* command identity (command2) of the i-th packet sent for this input
SentCmd(i) == sent[i].packet[4]

\* 16-bit data of the i-th packet sent for this input
SentData(i) == sent[i].packet[5] * 256 + sent[i].packet[6]

BothSetsOk ==
    /\ Len(sent) >= 2
    /\ SentCmd(1) = SET_AZ /\ sent[1].ok
    /\ SentCmd(2) = SET_EL /\ sent[2].ok

QueriesSent == {i \in 1..Len(sent) : SentCmd(i) \in {QUERY_AZ, QUERY_EL}}

\* n in 0..999 as exactly three decimal digits
ThreeDigits(n) ==
    <<DigitChars[(n \div 100) + 1], DigitChars[((n \div 10) % 10) + 1], DigitChars[(n % 10) + 1]>>

AngleReply(a, e) ==
    <<"A", "Z", "=">> \o ThreeDigits(a) \o <<" ", "E", "L", "=">> \o ThreeDigits(e)
        \o <<"\r", "\n">>

\* the tokens after the first n characters of cmd
TokensAfter(n) == Split(SubSeq(cmd, n + 1, Len(cmd)))

NotANumber(tok) == ~ParseFloat(tok).ok

Line_C2 == <<"C", "2">>
Line_W_45_10 == <<"W", " ", "4", "5", " ", "1", "0">>
Line_C2W45_10 == <<"C", "2", "W", "4", "5", " ", "1", "0">>
Line_W45_10C2 == <<"W", "4", "5", " ", "1", "0", "C", "2">>
Line_setpos_m5_10 == SetPosStr \o <<" ", "-", "5", " ", "1", "0">>
Line_setpos_45_m10 == SetPosStr \o <<" ", "4", "5", " ", "-", "1", "0">>
Line_setpos_round == SetPosStr \o <<" ", "4", "5", ".", "6", " ", "1", "0", ".", "4">>
Line_garbage == <<"g", "a", "r", "b", "a", "g", "e">>


CombinedLine ==
    \/ StartsWith(cmd, <<"C", "2", "W">>)
    \/ (StartsWith(cmd, <<"W">>) /\ EndsWith(cmd, <<"C", "2">>))

AckReply == <<"A", "C", "K", "\r", "\n">>

BothValues == azimuth.kind = "value" /\ elevation.kind = "value"

\* ------------------------------------------------------------------------
\* C1: a line routed to the C2 handler makes the worker send the azimuth
\* query (0x51) and then the elevation query (0x53) and nothing else; when
\* both queries return a value the reply is "AZ=<a> EL=<e>\r\n" with the
\* corrected centidegrees divided by 100 on three digits (raw 4500 and raw
\* 1000 with zero offsets give "AZ=045 EL=010\r\n"); when a query returns
\* None nothing is sent on the rotator transport.
\* ------------------------------------------------------------------------
C1_QueryReply ==
    (StartsWith(cmd, Line_C2) /\ ~CombinedLine) =>
        /\ Len(sent) <= 2
        /\ \A i \in 1..Len(sent) :
               sent[i].packet = IF i = 1 THEN <<255, 1, 0, 81, 0, 0, 82>>
                                         ELSE <<255, 1, 0, 83, 0, 0, 84>>
        /\ (Done /\ ~raisedExc) => Len(sent) = 2
        /\ Replied => (Done /\ BothValues)
        /\ (Done /\ BothValues) =>
               rotatorOut = <<AngleReply(azimuth.v \div 100, elevation.v \div 100)>>
        /\ (Done /\ (azimuth.kind = "None" \/ elevation.kind = "None")) => ~Replied
        /\ (/\ Done /\ BothValues
            /\ config.azimuth_offset = 0 /\ config.initial_azimuth = 0
            /\ config.min_elevation = 0
            /\ azimuth.raw = 4500 /\ elevation.raw = 1000) =>
               rotatorOut = << <<"A", "Z", "=", "0", "4", "5", " ",
                                 "E", "L", "=", "0", "1", "0", "\r", "\n">> >>

C1_Witness ==
    /\ cmd = Line_C2
    /\ azimuth.raw = 4500 /\ elevation.raw = 1000
    /\ rotatorOut = <<AngleReply(45, 10)>>

\* ------------------------------------------------------------------------
\* C2: for a line routed to the W handler, a missing or non-numeric token
\* means nothing is sent to the positioner and nothing is replied; otherwise
\* the azimuth set (0x4B) is sent, then the elevation set (0x4D) if the first
\* succeeded, and "ACK\r\n" is replied exactly when both sets succeeded.
\* ------------------------------------------------------------------------
C2_SetReply ==
    (StartsWith(cmd, <<"W">>) /\ ~CombinedLine) =>
        LET parts == TokensAfter(1)
            bad   == Len(parts) < 2 \/ NotANumber(parts[1]) \/ NotANumber(parts[2])
        IN  /\ bad => (sent = <<>> /\ ~Replied /\ Done)
            /\ Len(sent) <= 2
            /\ Len(sent) >= 1 => SentCmd(1) = SET_AZ
            /\ Len(sent) = 2 => (SentCmd(2) = SET_EL /\ sent[1].ok)
            /\ Replied => (rotatorOut = <<AckReply>> /\ BothSetsOk /\ Done)
            /\ (Done /\ BothSetsOk) => rotatorOut = <<AckReply>>
            /\ (cmd = Line_W_45_10 /\ Len(sent) >= 1) => SentData(1) = 4500
            /\ (cmd = Line_W_45_10 /\ Len(sent) = 2 /\ config.min_elevation = 0) =>
                   SentData(2) = 1000

C2_Witness ==
    /\ cmd = Line_W_45_10
    /\ BothSetsOk
    /\ rotatorOut = <<AckReply>>

\* ------------------------------------------------------------------------
\* C3: a line beginning with "C2W", or beginning with "W" and ending with
\* "C2", is handled as the combined command whatever single-command prefix
\* it carries: the angle-set path runs on the embedded W arguments; the
\* queries are sent only after both sets succeeded and the reply is then the
\* query's reply, never "ACK"; if the set path fails no query is sent and
\* nothing is replied.
\* ------------------------------------------------------------------------
C3_Combined ==
    CombinedLine =>
        LET arg   == IF StartsWith(cmd, <<"C", "2", "W">>)
                     THEN SubSeq(cmd, 4, Len(cmd))
                     ELSE SubSeq(cmd, 2, Len(cmd) - 2)
            parts == Split(arg)
            bad   == Len(parts) < 2 \/ NotANumber(parts[1]) \/ NotANumber(parts[2])
        IN  /\ bad => (sent = <<>> /\ ~Replied /\ Done)
            /\ (~bad /\ ParseFloat(parts[1]).c >= 0 /\ Done) => Len(sent) >= 1
            /\ Len(sent) <= 4
            /\ Len(sent) >= 1 => SentCmd(1) = SET_AZ
            /\ Len(sent) >= 2 => (SentCmd(2) = SET_EL /\ sent[1].ok)
            /\ \A i \in QueriesSent :
                   /\ i >= 3
                   /\ BothSetsOk
                   /\ SentCmd(i) = IF i = 3 THEN QUERY_AZ ELSE QUERY_EL
            /\ Replied =>
                   /\ rotatorOut = <<AngleReply(azimuth.v \div 100, elevation.v \div 100)>>
                   /\ rotatorOut # <<AckReply>>
                   /\ BothSetsOk /\ BothValues
            /\ (Done /\ BothSetsOk /\ BothValues) => Replied
            /\ (Done /\ ~BothSetsOk) => (~Replied /\ QueriesSent = {})
            /\ (cmd \in {Line_C2W45_10, Line_W45_10C2} /\ Len(sent) >= 1) => SentData(1) = 4500

C3_Witness ==
    /\ cmd = Line_C2W45_10
    /\ BothSetsOk
    /\ Len(sent) = 4
    /\ Replied

\* ------------------------------------------------------------------------
\* C4: for a line "\set_pos <az> <el>": without exactly two numeric tokens
\* there is no reply; a negative elevation token is rejected with no reply
\* and no packet sent; otherwise both values are rounded to whole degrees and
\* go through the angle-set path of W.  "\set_pos -5 10" gets no reply.
\* ------------------------------------------------------------------------
C4_SetPos ==
    StartsWith(cmd, SetPosStr) =>
        LET parts == TokensAfter(8)
            bad   == Len(parts) # 2 \/ NotANumber(parts[1]) \/ NotANumber(parts[2])
            a     == ParseFloat(parts[1]).c
            e     == ParseFloat(parts[2]).c
        IN  /\ bad => (sent = <<>> /\ ~Replied /\ Done)
            /\ (~bad /\ e < 0) => (sent = <<>> /\ ~Replied /\ Done)
            /\ (~bad /\ e >= 0) =>
                   /\ azi % 100 = 0 /\ azi - a \in -50..50
                   /\ ele % 100 = 0 /\ ele - e \in -50..50
                   /\ (a >= 0 /\ Done) => Len(sent) >= 1
                   /\ Len(sent) >= 1 => SentCmd(1) = SET_AZ
            /\ Len(sent) <= 2
            /\ Len(sent) = 2 => (SentCmd(2) = SET_EL /\ sent[1].ok)
            /\ Replied => (rotatorOut = <<AckReply>> /\ BothSetsOk /\ Done)
            /\ (Done /\ BothSetsOk) => rotatorOut = <<AckReply>>
            /\ cmd = Line_setpos_m5_10 => (~Replied /\ sent = <<>>)
            /\ (cmd = Line_setpos_round /\ Len(sent) >= 1) => SentData(1) = 4600
            /\ (cmd = Line_setpos_round /\ Len(sent) = 2 /\ config.min_elevation = 0) =>
                   SentData(2) = 1000

C4_Witness ==
    /\ cmd = Line_setpos_45_m10
    /\ Done /\ ~Replied /\ sent = <<>>

\* ------------------------------------------------------------------------
\* C5: a line that is neither a combined command nor starts with "C2", "W"
\* or "\set_pos" gets no reply, and neither a send nor a receive is performed
\* on the positioner transport for it.
\* ------------------------------------------------------------------------
C5_Unrecognised ==
    (/\ ~CombinedLine
     /\ ~StartsWith(cmd, <<"C", "2">>)
     /\ ~StartsWith(cmd, <<"W">>)
     /\ ~StartsWith(cmd, SetPosStr)) =>
        /\ Done
        /\ ~Replied
        /\ sent = <<>>
        /\ reads = <<>> /\ drains = 0 /\ lastRecv = <<>> /\ qres = NoResult

C5_Witness == cmd = Line_garbage /\ Done /\ ~Replied /\ sent = <<>>


\* ------------------------------------------------------------------------
\* C6: every byte sequence sent on the rotator transport is "ACK\r\n" or
\* "AZ=ddd EL=ddd\r\n" with both fields between 000 and 359, and at most one
\* reply is sent per received input.
\* ------------------------------------------------------------------------
CRLF == <<"\r", "\n">>

IsDegreeField(f) == Len(f) = 3 /\ AllDigits(f) /\ DigitsToNat(f) <= 359

IsAngleReply(r) ==
    /\ Len(r) = 15
    /\ SubSeq(r, 1, 3) = <<"A", "Z", "=">>
    /\ IsDegreeField(SubSeq(r, 4, 6))
    /\ SubSeq(r, 7, 10) = <<" ", "E", "L", "=">>
    /\ IsDegreeField(SubSeq(r, 11, 13))
    /\ SubSeq(r, 14, 15) = CRLF

C6_ReplyShape ==
    /\ Len(rotatorOut) <= 1
    /\ \A i \in 1..Len(rotatorOut) : rotatorOut[i] = AckReply \/ IsAngleReply(rotatorOut[i])

\* ------------------------------------------------------------------------
\* C7: query_angle returns the value of the first response read, among at
\* most three, that is 7 bytes long, differs from the packet sent and passes
\* the checksum, decoded from its bytes 4-5 and corrected, and reads nothing
\* after it; in particular an echo followed by the true response gives the
\* value of the true response.
\* ------------------------------------------------------------------------
ChecksumOk(f) == f[7] = (f[2] + f[3] + f[4] + f[5] + f[6]) % 256

SentQuery == <<255, 1, 0, query_cmd, 0, 0, (query_cmd + 1) % 256>>

Acceptable(f) == Len(f) = 7 /\ f # SentQuery /\ ChecksumOk(f)

Malformed(f) == f # <<>> /\ (Len(f) # 7 \/ ~ChecksumOk(f))

C7_FirstValidRead ==
    (pc = "q_ret" /\ sendOk) =>
        LET good == {i \in 1..Len(reads) : Acceptable(reads[i])}
        IN  /\ Len(reads) <= 3
            /\ good = {} => qres.kind # "value"
            /\ good # {} =>
                   LET k == CHOOSE i \in good : \A j \in good : i <= j
                   IN  /\ Len(reads) = k
                       /\ qres.kind = "value"
                       /\ qres.raw = reads[k][5] * 256 + reads[k][6]
                       /\ \E rnd \in Rnd :
                              qres.v = apply_angle_correction(qres.raw, query_cmd, config, rnd)

\* ------------------------------------------------------------------------
\* C8: when every response read of a query_angle call returns a malformed
\* frame (wrong length or bad checksum), the call returns None and has made
\* exactly 3 response reads.
\* ------------------------------------------------------------------------
C8_ExhaustionAfterThree ==
    (/\ pc = "q_ret" /\ sendOk
     /\ reads # <<>>
     /\ \A i \in 1..Len(reads) : Malformed(reads[i])) =>
        (qres.kind = "None" /\ Len(reads) = 3)

\* ------------------------------------------------------------------------
\* C9: every query_angle call completes, whatever the transport returns,
\* also when it delivers bytes on every read.
\* ------------------------------------------------------------------------
C9_QueryTerminates == (pc = "q_drain") ~> (pc = "q_ret")

\* ------------------------------------------------------------------------
\* C10: every frame built by generate_packet passes response validation, and
\* every 7-byte frame whose last byte differs from the sum of bytes 1..5
\* modulo 256 fails it.
\* ------------------------------------------------------------------------
ByteSamples == {0, 1, 17, 148, 255}

C10_ChecksumValidation ==
    \A c2 \in {SET_AZ, SET_EL, QUERY_AZ, QUERY_EL}, d1 \in ByteSamples, d2 \in ByteSamples :
        LET frame == generate_packet(0, c2, d1, d2)
        IN  /\ validate_response(frame, config) = [raised |-> FALSE, valid |-> TRUE]
            /\ \A b \in ByteSamples :
                   b # frame[7] =>
                       validate_response([frame EXCEPT ![7] = b], config)
                           = [raised |-> FALSE, valid |-> FALSE]

\* ------------------------------------------------------------------------
\* C11  Elevation round trip: for every valid configuration and every
\* elevation angle in [min_elevation, max_elevation], the elevation
\* correction (0x53) of the raw value that set_angle(angle, 0x4D) put on
\* the wire is within 0.01 degree (one centidegree) of the angle, modulo
\* 360 degrees.
\* ------------------------------------------------------------------------
\* distance of two centidegree values on the 360-degree circle
CircularDistance(a, b) ==
    LET d == (a - b) % 36000 IN Min(d, 36000 - d)

RoundTripDone == pc = "codec_done" /\ sent # <<>>

C11_ElevationRoundTrip ==
    (RoundTripDone /\ ValidConfig(config)) => CircularDistance(qres.v, ele) <= 1

\* ------------------------------------------------------------------------
\* C12  For every raw 16-bit value and every valid configuration the value
\* the correction returns for an azimuth (0x51) or elevation (0x53) query
\* lies in [0, 36000) centidegrees.
\* ------------------------------------------------------------------------
C12_CorrectionRange ==
    (pc = "codec_done" /\ sent = <<>> /\ ValidConfig(config))
        => (0 <= qres.v /\ qres.v < 36000)

\* ------------------------------------------------------------------------
\* C13  At most one positioner transaction is in flight at any time, under
\* any interleaving of start(), stop() and incoming commands: no thread
\* issues a query or a set while another one is inside a positioner call.
\* ------------------------------------------------------------------------
\* the first thread is between the dispatch of a command and the end of its
\* last positioner call
Transacting ==
    Awake /\ pc \in {"set_az", "set_el", "q_drain", "q_send", "q_read", "q_ret"}

InFlight == (IF Transacting THEN 1 ELSE 0) + Cardinality(busy)

C13_OneTransaction == InFlight <= 1

\* a transaction of the first thread is in flight while a second thread,
\* started after a stop(), runs the loop
C13_Witness == Transacting /\ 2 \in alive /\ running

\* ------------------------------------------------------------------------
\* C14  While the running flag is true the command loop never terminates
\* itself: an exception raised while one input is handled ends in the
\* except clause of the loop, the thread stays in the loop and polls again;
\* a thread leaves the loop only when it finds the flag cleared at the loop
\* test.
\* ------------------------------------------------------------------------
C14_LoopSurvives ==
    [][ /\ (alive' # alive /\ alive' \subseteq alive) => ~running
        /\ (Awake /\ ~Awake') => pc = "poll"
        /\ (raisedExc' /\ (~raisedExc \/ pc # "poll")) => (Awake' /\ pc' = "poll") ]_vars

\* the flag is set and the first thread is back at the poll after an
\* exception
C14_Witness == raisedExc /\ running /\ Awake /\ pc = "poll" /\ cmd # <<>>

\* ------------------------------------------------------------------------
\* C15  start() is a no-op when already running; consequently at most one
\* command-loop thread is alive at any time, over any sequence and
\* interleaving of start() and stop() calls.
\* ------------------------------------------------------------------------
C15_SingleWorker == Cardinality(alive) <= 1

\* ------------------------------------------------------------------------
\* C16  stop(), called in any lifecycle state (never started, running,
\* already stopped), returns normally, and at its return the running flag
\* is false, both connections are closed and their references cleared, and
\* the worker, if any, has been waited for.
\* ------------------------------------------------------------------------
StopEnded == caller = "idle" /\ done \in {"stop", "stop_raised"}

C16_StopReturns ==
    StopEnded =>
        /\ done = "stop"
        /\ ~running
        /\ gs232b = "None" /\ gsConn = "closed"
        /\ pelco = "None" /\ pelcoConn = "closed"
        /\ joined # "none"

\* ------------------------------------------------------------------------
\* C17  stop() called while the worker has a positioner transaction in
\* flight lets it complete: the positioner connection is not closed or
\* cleared underneath the transaction.
\* ------------------------------------------------------------------------
C17_TransactionNotCut ==
    Transacting => (pelco = "protocol" /\ pelcoConn = "open")

\* ------------------------------------------------------------------------
\* C18  If creating or connecting either transport fails during
\* initialization, the failure is raised to the caller, the Dispatcher is
\* not running and has no worker, and no connection opened earlier in that
\* initialization is left open.
\* ------------------------------------------------------------------------
InitFailed == caller = "idle" /\ done \in InitErrors

C18_NoDanglingConnection ==
    /\ (caller = "idle" /\ (gs232b = "None" \/ pelco = "None")) => InitFailed
    /\ InitFailed => (~running /\ alive = {} /\ gsConn # "open" /\ pelcoConn # "open")

\* ------------------------------------------------------------------------
\* C19  Response validation is purely structural: whether a response is
\* accepted depends on its bytes alone (seven bytes whose last one is the
\* sum of bytes 1..5 modulo 256), never on the angle-correction
\* configuration, and a response that is not accepted leads to None, never
\* to an exception raised out of query_angle.
\* ------------------------------------------------------------------------
LastRead == reads[Len(reads)]

C19_StructuralValidation ==
    (pc = "q_ret" /\ reads # <<>>) =>
        /\ qres.kind # "raise"
        /\ qres.kind = "value" <=> Acceptable(LastRead)

\* ------------------------------------------------------------------------
\* C20  Initialization creates, for each device, a transport of the kind
\* its configuration names, for each of serial, tcp and udp; whenever the
\* transport's connect() succeeds, the initialization of that device
\* succeeds: it fails only when a connect() fails.
\* ------------------------------------------------------------------------
C20_TransportPerKind ==
    /\ done \notin {"init_KeyError", "init_TypeError"}
    /\ (caller = "idle" /\ done = "init") => (gsConn = "open" /\ pelcoConn = "open")

\* ------------------------------------------------------------------------
\* Vocabulary of the properties about one set_angle call
\* ------------------------------------------------------------------------
\* the 16-bit value a packet carries in data1/data2, big-endian
WireValue(packet) == packet[5] * 256 + packet[6]

\* the set_angle call has returned
SetReturned == pc = "codec_sent"

\* ------------------------------------------------------------------------
\* C21  The azimuth set handler returns false without sending anything for
\* every negative angle; for every non-negative angle (0 and 360 included)
\* it sends exactly one set-azimuth (0x4B) packet whose 16-bit data is
\* (angle mod 360) in centidegrees, so the value on the wire is always in
\* [0, 36000).
\* ------------------------------------------------------------------------
C21_AzimuthOnWire ==
    (SetReturned /\ set_cmd = SET_AZ) =>
        IF azi < 0
        THEN set_res = "False" /\ sent = <<>>
        ELSE /\ Len(sent) = 1
             /\ sent[1].packet[4] = SET_AZ
             /\ WireValue(sent[1].packet) = azi % 36000
             /\ WireValue(sent[1].packet) < 36000

\* ------------------------------------------------------------------------
\* C22  set_angle with a command identity other than 0x4B or 0x4D returns
\* false and sends nothing; with 0x4B or 0x4D it performs at most one send
\* and no receive on the positioner transport, and whenever it sends, its
\* result is the transport's send result.
\* ------------------------------------------------------------------------
NoReceive == drains = 0 /\ lastRecv = <<>> /\ reads = <<>>

C22_SetAngleEffect ==
    SetReturned =>
        /\ set_cmd \notin {SET_AZ, SET_EL} => (set_res = "False" /\ sent = <<>>)
        /\ Len(sent) <= 1
        /\ NoReceive
        /\ sent # <<>> => (sent[1].packet[4] = set_cmd /\ set_res = BoolStr(sent[1].ok))

\* an identity without a handler was passed and the call has returned
C22_Witness == SetReturned /\ set_cmd = QUERY_AZ /\ set_res = "False" /\ sent = <<>>

\* ------------------------------------------------------------------------
\* C23  In every query_angle call the transport operations occur in this
\* order: drain reads until one returns empty, then exactly one send of
\* the query packet, then at most three response reads; if the send
\* reports failure the call returns None without any response read; and
\* the value returned is decoded from a response read made after the send,
\* never from what a drain read returned.
\* ------------------------------------------------------------------------
\* the sends of this call's query packet among the packets of this input
CallSends == {i \in 1..Len(sent) : sent[i].packet = SentQuery}

\* the drain has ended on an empty read and the query packet went out once,
\* as the last packet so far, with the result the call remembers
SentOnceAfterDrain ==
    /\ lastRecv = <<>>
    /\ CallSends = {Len(sent)}
    /\ sent[Len(sent)].ok = sendOk

C23_QueryOrder ==
    /\ pc = "q_drain" => (CallSends = {} /\ reads = <<>> /\ qres = NoResult)
    /\ pc = "q_send" => (lastRecv = <<>> /\ CallSends = {} /\ reads = <<>> /\ qres = NoResult)
    /\ pc = "q_read" => (SentOnceAfterDrain /\ sendOk /\ Len(reads) < max_retries)
    /\ pc = "q_ret" =>
        /\ SentOnceAfterDrain
        /\ Len(reads) <= max_retries
        /\ ~sendOk => (reads = <<>> /\ qres = NoneResult)
        /\ qres.kind = "value" =>
              (sendOk /\ reads # <<>> /\ qres.raw = WireValue(LastRead))

\* a call that drained stale data, sent the query and decoded the third read
C23_Witness ==
    pc = "q_ret" /\ drains > 0 /\ sendOk /\ Len(reads) = max_retries /\ qres.kind = "value"

\* ------------------------------------------------------------------------
\* C24  After stop() has cleared the running flag, the worker eventually
\* leaves the command loop and terminates (every transport call returning
\* within its timeout), and it does not begin processing a new input once
\* it has observed the cleared flag at the top of an iteration: an input
\* is taken up only by a live worker that found the flag set, and a thread
\* that has ended stays ended.
\* ------------------------------------------------------------------------
C24_WorkerStops ==
    /\ \A t \in 1..MaxThreads : (t \in alive /\ ~running) ~> (t \notin alive)
    /\ [][ /\ (pc = "poll" /\ (pc' # "poll" \/ cmd' # cmd)) => (Awake /\ running)
           /\ \A t \in 1..thread : t \notin alive => t \notin alive' ]_vars

\* stop() cleared the flag while the worker was processing an input, and the
\* join returned because the worker had ended
C24_Witness ==
    /\ ~running
    /\ thread = 1
    /\ ~Awake
    /\ joined = "finished"
    /\ cmd # <<>>
    /\ pelco = "None"

\* ------------------------------------------------------------------------
\* C25  In the angle-set path the azimuth packet is always sent before the
\* elevation packet, and the elevation packet is sent only if the azimuth
\* set reported success; the pair is not atomic: when the elevation set
\* fails after a successful azimuth send, the azimuth packet has gone out
\* to the positioner although no "ACK" is returned.
\* ------------------------------------------------------------------------
\* positions of the set packets among the packets sent for this input
SetSends == {i \in 1..Len(sent) : SentCmd(i) \in {SET_AZ, SET_EL}}

\* the elevation set failed after the azimuth set succeeded
ElevationFailed ==
    /\ Len(sent) >= 2
    /\ SentCmd(1) = SET_AZ /\ sent[1].ok
    /\ SentCmd(2) = SET_EL /\ ~sent[2].ok

C25_AzimuthFirst ==
    /\ SetSends \subseteq {1, 2}
    /\ 1 \in SetSends => SentCmd(1) = SET_AZ
    /\ 2 \in SetSends => (SentCmd(1) = SET_AZ /\ sent[1].ok /\ SentCmd(2) = SET_EL)
    /\ pc = "set_el" => (Len(sent) = 1 /\ SentCmd(1) = SET_AZ /\ sent[1].ok)
    /\ ElevationFailed =>
          (Len(sent) = 2 /\ Done /\ response # ACK /\ ~Replied /\ set_res = "False")

\* "W 45 10": the azimuth packet for 45 degrees went out, the elevation
\* send failed, and the iteration ended without a reply
C25_Witness ==
    /\ cmd = Line_W_45_10
    /\ ElevationFailed
    /\ SentData(1) = 4500
    /\ Done /\ ~Replied

\* ------------------------------------------------------------------------
\* C26  Whenever the running flag is true, both device connection
\* references (rotator transport and positioner codec) are present and
\* unclosed: no sequence of start() and stop() calls leaves a worker
\* polling against cleared or closed connections.
\* ------------------------------------------------------------------------
C26_RunningConnected ==
    running =>
        (gs232b = "handler" /\ gsConn = "open" /\ pelco = "protocol" /\ pelcoConn = "open")

\* ------------------------------------------------------------------------
\* C27  Every set packet put on the wire carries in data1/data2
\* (big-endian) the full intended centidegree value: for every angle the
\* azimuth or elevation handler goes on to send, the value angle*100 after
\* adjustment lies in 0..65535, so the 16-bit masking never truncates or
\* wraps it (the truncation of int() aside, which is at most one unit).
\* ------------------------------------------------------------------------
\* the adjusted angle of the call, in centidegrees
IntendedValue ==
    IF set_cmd = SET_AZ
    THEN IF azi > 36000 THEN azi % 36000 ELSE azi
    ELSE LET abs_min == IF config.min_elevation < 0 THEN -config.min_elevation
                        ELSE config.min_elevation
         IN  IF ele >= abs_min THEN ele - abs_min
             ELSE 36000 + config.min_elevation + ele

C27_FullValueOnWire ==
    (SetReturned /\ sent # <<>>) =>
        /\ IntendedValue \in 0..65535
        /\ WireValue(sent[1].packet) - IntendedValue \in {-1, 0, 1}

====
